---- MODULE Spec2Model ----
(***************************************************************************)
(* CodePilot agent backend: the plan/act/dispatch/verify graph of          *)
(* backend/agent_graph.py, its five tools, the Docker sandbox manager and  *)
(* the /chat handler of backend/main.py that drives one run.               *)
(*                                                                         *)
(* Text is a sequence of tokens (a Python str cut into pieces); the        *)
(* failure signatures "Error" and "Exception" are tokens of their own, so  *)
(* Python's "Error" in s is token membership.                            *)
(***************************************************************************)
EXTENDS Integers, Sequences, FiniteSets, TLC

VARIABLES
    chat_history,         \* main.py GlobalState.chat_history
    history_objs,         \* chat_post: the local list built from chat_history
    messages,             \* AgentState.messages of the run in progress
    plan,                 \* AgentState.plan
    error,                \* AgentState.error
    last_tool_output,     \* AgentState.last_tool_output
    pc,                   \* position of chat_post / the graph
    results,              \* tool_node: the local list results
    final_text,           \* chat_post: the local final_text
    exc,                  \* the exception in flight (text), <<>> when none
    modelCalls,           \* number of llm.invoke calls made so far
    llm_input,            \* executor_node: the message list of the last llm.invoke
    fs,                   \* the host filesystem: location -> [kind, content]
    touched,              \* locations the file tools opened or listed
    ACTIVE_PROJECT_PATH,  \* agent_graph.py global
    docker_client,        \* agent_graph.py global: TRUE when docker.from_env() gave a client
    container,            \* the Docker daemon's container named CONTAINER_NAME
    nextId,               \* the daemon's next container id
    host_runs,            \* commands run as host subprocesses: <<command, cwd>>
    sandbox_runs,         \* commands exec'ed in a container: <<command, id, mount>>
    sw_pc,                \* set_active_project: "idle" or "remove" (path set, removal pending)
    sw_old,               \* set_active_project: the instance that existed when it was called
    rs_pc,                \* a run_shell call in flight: "idle" or "acquired"
    rs_args,              \* its arguments
    rs_handle,            \* its local container
    ret,                  \* outcome of the last finished tool call made outside a run
    nSwitch,              \* set_active_project calls so far
    nShell,               \* direct run_shell calls so far
    rs_overlap,           \* a set_active_project call overlapped this run_shell call
    instances,            \* ids of the sandbox containers that exist on the daemon
    PROJECT_ROOT,         \* main.py global
    project_req,          \* the last /project request: its number, handler and path
    running_process,      \* main.py GlobalState.running_process: a process id, 0 for None
    terminal_history,     \* main.py GlobalState.terminal_history, line by line
    procs,                \* the processes /editor/run launched: pid -> status
    threads,              \* the run_proc threads: position and locals of each
    stop_pc,              \* position of the /editor/stop handler
    run_pc,               \* position of the /editor/run handler: "idle" or "join"
    nRun,                 \* /editor/run requests so far
    nStop                 \* /editor/stop requests so far

vars == <<chat_history, history_objs, messages, plan, error, last_tool_output, pc, results,
          final_text, exc, modelCalls, llm_input, fs, touched, ACTIVE_PROJECT_PATH,
          docker_client, container, nextId, host_runs, sandbox_runs,
          sw_pc, sw_old, rs_pc, rs_args, rs_handle, ret, nSwitch, nShell,
          rs_overlap, instances, PROJECT_ROOT, project_req, running_process,
          terminal_history,
          procs, threads, stop_pc, run_pc, nRun, nStop>>

runVars == <<chat_history, history_objs, messages, plan, error, last_tool_output, pc, results,
             final_text, exc, modelCalls, llm_input>>
fsVars == <<fs, touched>>
sandboxVars == <<ACTIVE_PROJECT_PATH, docker_client, container, nextId,
                 host_runs, sandbox_runs, instances>>
directVars == <<sw_pc, sw_old, rs_pc, rs_args, rs_handle, ret, nSwitch, nShell,
                rs_overlap>>
runnerVars == <<running_process, terminal_history, procs, threads, stop_pc, run_pc,
                nRun, nStop>>
projVars == <<PROJECT_ROOT, project_req>>
uiVars == <<projVars, runnerVars>>

(***************************************************************************)
(* Bounds                                                                  *)
(***************************************************************************)
MaxModelCalls == 2
MaxSwitches == 2
MaxShellCalls == 2

(***************************************************************************)
(* Text                                                                    *)
(***************************************************************************)
\* Python tok in s for the signature tokens.
Contains(s, tok) == \E i \in DOMAIN s : s[i] = tok

RECURSIVE JoinSep(_, _)
\* sep.join(parts), parts a sequence of texts
JoinSep(parts, sep) ==
    IF parts = <<>> THEN <<>>
    ELSE IF Len(parts) = 1 THEN parts[1]
    ELSE parts[1] \o sep \o JoinSep(Tail(parts), sep)

Front(s) == SubSeq(s, 1, Len(s) - 1)

(***************************************************************************)
(* Paths.  A path argument is [abs, parts]; a location is the sequence of  *)
(* components of an absolute, normalised path.                             *)
(***************************************************************************)
P1 == <<"p1">>
P2 == <<"p2">>
ProjectPaths == {P1, P2}

Rel(parts) == [abs |-> FALSE, parts |-> parts]
Abs(parts) == [abs |-> TRUE, parts |-> parts]
NoPath == Rel(<<>>)

\* The string of a path argument, as the model wrote it.
PathStr(p) ==
    (IF p.abs THEN <<"/">> ELSE <<>>)
        \o JoinSep([i \in DOMAIN p.parts |-> <<p.parts[i]>>], <<"/">>)

\* str of a location (an absolute path).
LocStr(loc) == <<"/">> \o JoinSep([i \in DOMAIN loc |-> <<loc[i]>>], <<"/">>)

\* os.path.join(root, path): an absolute second argument discards the root.
JoinPath(root, p) == IF p.abs THEN p.parts ELSE root \o p.parts

RECURSIVE NormalizeFrom(_, _)
NormalizeFrom(acc, parts) ==
    IF parts = <<>> THEN acc
    ELSE IF Head(parts) = "." THEN NormalizeFrom(acc, Tail(parts))
    ELSE IF Head(parts) = ".."
        THEN NormalizeFrom(IF acc = <<>> THEN acc ELSE Front(acc), Tail(parts))
    ELSE NormalizeFrom(Append(acc, Head(parts)), Tail(parts))

\* The location the kernel resolves a component sequence to.
Normalize(parts) == NormalizeFrom(<<>>, parts)

\* loc is root or lies below it.
Under(root, loc) ==
    /\ Len(loc) >= Len(root)
    /\ SubSeq(loc, 1, Len(root)) = root

(***************************************************************************)
(* The filesystem and the three file tools (agent_graph.py 125-166).       *)
(* A tool outcome is [raised, ret, fs, opened]: ret is the returned      *)
(* string, or the exception's text when the call raised.                   *)
(***************************************************************************)
Locs == { <<"p1">>, <<"p1", "a.txt">>, <<"p1", "a.txt", "z">>, <<"p1", "d">>,
          <<"p1", "ro.txt">>, <<"p1", "n">>, <<"p1", "n", "f.txt">>,
          <<"p1", ".env">>, <<"p1", "node_modules">>, <<"p1", "__pycache__">>,
          <<"p1", "my__pycache__.txt">>,
          <<"p1", "d", "A">>, <<"p1", "d", "b.txt">>, <<"p1", "d", ".git">>,
          <<"x">>, <<"etc">>, <<"etc", "x">> }

NoText == <<>>
Entry(kind, content) == [kind |-> kind, content |-> content]

FsInit ==
    [loc \in Locs |->
        CASE loc \in {<<"p1">>, <<"p1", "d">>, <<"etc">>} -> Entry("dir", NoText)
          [] loc \in {<<"p1", "node_modules">>, <<"p1", "__pycache__">>,
                      <<"p1", "d", "A">>, <<"p1", "d", ".git">>} -> Entry("dir", NoText)
          [] loc = <<"p1", "a.txt">> -> Entry("file", <<"hello">>)
          [] loc = <<"p1", ".env">> -> Entry("file", <<"KEY=1">>)
          [] loc = <<"p1", "my__pycache__.txt">> -> Entry("file", <<"notes">>)
          [] loc = <<"p1", "d", "b.txt">> -> Entry("file", <<"b">>)
          [] loc = <<"p1", "ro.txt">> -> Entry("rofile", <<"fixed">>)
          [] OTHER -> Entry("none", NoText)]

\* "none" | "file" | "rofile" (a file open(.., "w") is refused on) | "dir"
Kind(fsys, loc) ==
    IF loc = <<>> THEN "dir"
    ELSE IF loc \in DOMAIN fsys THEN fsys[loc].kind
    ELSE "none"

RECURSIVE MakeDirsFrom(_, _, _)
\* os.makedirs(loc, exist_ok=True), from the k-th ancestor down.
MakeDirsFrom(fsys, loc, k) ==
    IF k > Len(loc) THEN [ok |-> TRUE, fs |-> fsys]
    ELSE LET anc == SubSeq(loc, 1, k) IN
         CASE Kind(fsys, anc) = "dir" -> MakeDirsFrom(fsys, loc, k + 1)
           [] Kind(fsys, anc) = "none" /\ anc \in DOMAIN fsys ->
                MakeDirsFrom([fsys EXCEPT ![anc] = Entry("dir", NoText)], loc, k + 1)
           [] OTHER -> [ok |-> FALSE, fs |-> fsys]

MakeDirs(fsys, loc) == MakeDirsFrom(fsys, loc, 1)

ToolOutcome(raised, text, fsys, opened) ==
    [raised |-> raised, ret |-> text, fs |-> fsys, opened |-> opened]

\* write_file(path, content): no try/except around makedirs and open.
WriteFile(fsys, root, p, content) ==
    LET full == JoinPath(root, p)
        target == Normalize(full)
        parent == Normalize(Front(full))
        made == MakeDirs(fsys, parent)
    IN  IF ~made.ok
        THEN ToolOutcome(TRUE, <<"[Errno 17] File exists: ">> \o LocStr(parent),
                         made.fs, {})
        ELSE IF Kind(made.fs, target) = "dir"
        THEN ToolOutcome(TRUE, <<"[Errno 21] Is a directory: ">> \o LocStr(target),
                         made.fs, {target})
        ELSE IF Kind(made.fs, target) = "rofile" \/ target \notin DOMAIN made.fs
        THEN ToolOutcome(TRUE, <<"[Errno 13] Permission denied: ">> \o LocStr(target),
                         made.fs, {target})
        ELSE ToolOutcome(FALSE, <<"Wrote to ">> \o PathStr(p),
                         [made.fs EXCEPT ![target] = Entry("file", content)],
                         {target})

\* read_file without lines 142-143: open raises for a missing file and the
\* except of line 147 reports it.
ReadFileNoExistsCheck(fsys, root, p) ==
    LET target == Normalize(JoinPath(root, p)) IN
    IF Kind(fsys, target) \in {"none", "dir"}
    THEN ToolOutcome(FALSE,
            <<"Error", " reading file: ",
              IF Kind(fsys, target) = "none"
              THEN "[Errno 2] No such file or directory: "
              ELSE "[Errno 21] Is a directory: ">> \o LocStr(target),
            fsys, {target})
    ELSE ToolOutcome(FALSE, fsys[target].content, fsys, {target})

\* read_file(path)
ReadFile(fsys, root, p) ==
    LET target == Normalize(JoinPath(root, p)) IN
    IF Kind(fsys, target) = "none"
    THEN ToolOutcome(FALSE,
            <<"Error", ": File ">> \o PathStr(p) \o <<" does not exist.">>,
            fsys, {})
    ELSE IF Kind(fsys, target) = "dir"
    THEN ToolOutcome(FALSE,
            <<"Error", " reading file: ", "[Errno 21] Is a directory: ">>
                \o LocStr(target),
            fsys, {target})
    ELSE ToolOutcome(FALSE, fsys[target].content, fsys, {target})

\* An entry name cut into pieces, the way a text is: the leading dot and the
\* words list_files looks for are pieces of their own.
NameTokens(name) ==
    CASE name = ".env" -> <<".", "env">>
      [] name = ".git" -> <<".", "git">>
      [] name = "my__pycache__.txt" -> <<"my", "__pycache__", ".txt">>
      [] OTHER -> <<name>>

\* The names list_files skips: line 159, then line 160.
Hidden(name) == NameTokens(name)[1] = "." /\ Len(NameTokens(name)) > 1
Skipped(name) ==
    \/ Contains(NameTokens(name), "node_modules")
    \/ Contains(NameTokens(name), "__pycache__")

\* Code-point order of the entry names the model uses.
NameRank(name) ==
    CASE name = ".env" -> 1
      [] name = ".git" -> 2
      [] name = "A" -> 3
      [] name = "__pycache__" -> 4
      [] name = "a.txt" -> 5
      [] name = "b.txt" -> 6
      [] name = "d" -> 7
      [] name = "etc" -> 8
      [] name = "f.txt" -> 9
      [] name = "my__pycache__.txt" -> 10
      [] name = "n" -> 11
      [] name = "node_modules" -> 12
      [] name = "p1" -> 13
      [] name = "ro.txt" -> 14
      [] name = "x" -> 15
      [] name = "z" -> 16
      [] OTHER -> 17

\* Line 164 sorting on the entry name alone, the type prefix left out of the key.
EntryLessByName(a, b) == NameRank(a.name) < NameRank(b.name)

\* Python's order of the strings "DIR: name" and "FILE: name".
EntryLess(a, b) ==
    \/ a.type = "DIR" /\ b.type = "FILE"
    \/ a.type = b.type /\ NameRank(a.name) < NameRank(b.name)

RECURSIVE SortEntries(_)
\* sorted(entries), entries a set of [type, name]
SortEntries(S) ==
    IF S = {} THEN <<>>
    ELSE LET m == CHOOSE e \in S : \A o \in S \ {e} : EntryLess(e, o)
         IN  <<m>> \o SortEntries(S \ {m})

\* list_files(path)
ListFiles(fsys, root, p) ==
    LET target == Normalize(JoinPath(root, p)) IN
    IF Kind(fsys, target) = "none"
    THEN ToolOutcome(FALSE,
            <<"Error", ": Directory ">> \o PathStr(p) \o <<" does not exist.">>,
            fsys, {})
    ELSE IF Kind(fsys, target) # "dir"
    THEN ToolOutcome(FALSE,
            <<"Error", " listing directory: ", "[Errno 20] Not a directory: ">>
                \o LocStr(target),
            fsys, {target})
    ELSE LET children == {loc \in DOMAIN fsys :
                             /\ Len(loc) = Len(target) + 1
                             /\ Front(loc) = target
                             /\ Kind(fsys, loc) # "none"}
             kept == {loc \in children :
                         ~Hidden(loc[Len(loc)]) /\ ~Skipped(loc[Len(loc)])}
             entries == {[type |-> IF Kind(fsys, loc) = "dir" THEN "DIR" ELSE "FILE",
                          name |-> loc[Len(loc)]] : loc \in kept}
             sorted == SortEntries(entries)
         IN  ToolOutcome(FALSE,
                JoinSep([i \in DOMAIN sorted |->
                            <<sorted[i].type, ": ", sorted[i].name>>], <<"\n">>),
                fsys, {target})

(***************************************************************************)
(* The sandbox manager (agent_graph.py 25-73) and run_shell (82-123).      *)
(* A Docker API call either answers or faults (APIError, connection lost); *)
(* every outcome the daemon can give is in the outcome sets below.         *)
(***************************************************************************)
NoContainer == [id |-> 0, status |-> "absent", mount |-> <<>>]
Exists(c) == c.status # "absent"

Commands == {<<"pytest">>}
OutOk == <<"2 passed">>
OutFail == <<"ZeroDivision", "Error", ": division by zero">>
CmdOutputs == {OutOk, OutFail}

ShellArgs == [command : Commands, background : BOOLEAN]

Acquired(raised, excText, handle, cont, nid, how) ==
    [raised |-> raised, exc |-> excText, handle |-> handle,
     container |-> cont, nextId |-> nid, acquire |-> how]

\* get_sandbox mounting the directory the module was loaded with (line 66
\* without ACTIVE_PROJECT_PATH) into every instance it creates.
GetSandboxMountsDefault(dc, cont, path, nid) ==
    IF ~dc
    THEN {Acquired(FALSE, NoText, NoContainer, cont, nid, "no_client")}
    ELSE IF Exists(cont)
    THEN LET up == [cont EXCEPT !.status = "running"] IN
         {Acquired(FALSE, NoText, up, up, nid,
                   IF cont.status = "running" THEN "reused" ELSE "started")}
    ELSE LET new == [id |-> nid, status |-> "running", mount |-> P1] IN
         {Acquired(FALSE, NoText, new, new, nid + 1, "created")}

\* get_sandbox running containers.run also when the lookup finds an instance
\* that is not running, instead of starting that one.
GetSandboxCreatesBesideStopped(dc, cont, path, nid) ==
    IF ~dc
    THEN {Acquired(FALSE, NoText, NoContainer, cont, nid, "no_client")}
    ELSE IF Exists(cont) /\ cont.status = "running"
    THEN {Acquired(FALSE, NoText, cont, cont, nid, "reused")}
    ELSE LET new == [id |-> nid, status |-> "running", mount |-> path] IN
         {Acquired(FALSE, NoText, new, new, nid + 1, "created")}

\* get_sandbox(): the set of its outcomes in a daemon state.
GetSandbox(dc, cont, path, nid) ==
    IF ~dc
    THEN {Acquired(FALSE, NoText, NoContainer, cont, nid, "no_client")}
    ELSE \* containers.get faults with something other than NotFound
         {Acquired(TRUE, <<"500 Server ", "Error", " for containers.get">>,
                   NoContainer, cont, nid, "lookup_fault")}
         \cup
         (IF Exists(cont)
          THEN IF cont.status = "running"
               THEN {Acquired(FALSE, NoText, cont, cont, nid, "reused")}
               ELSE LET up == [cont EXCEPT !.status = "running"] IN
                    { Acquired(FALSE, NoText, up, up, nid, "started"),
                      \* container.start() is outside any try
                      Acquired(TRUE, <<"500 Server ", "Error", " for start">>,
                               NoContainer, cont, nid, "start_fault") }
          ELSE LET new == [id |-> nid, status |-> "running", mount |-> path] IN
               { Acquired(FALSE, NoText, new, new, nid + 1, "created"),
                 \* containers.run raised: printed, None returned
                 Acquired(FALSE, NoText, NoContainer, cont, nid, "create_failed"),
                 \* containers.run raised after creating: the instance stays, not started
                 Acquired(FALSE, NoText, NoContainer,
                          [new EXCEPT !.status = "created"], nid + 1, "create_failed") })

\* The daemon's instances after a get_sandbox that moved the next id from nid
\* to after: a new id means containers.run created an instance.
InstancesAfter(inst, nid, after) == IF after # nid THEN inst \cup {nid} ELSE inst

Executed(text, where, ran, mount) ==
    [ret |-> text, where |-> where, ran |-> ran, mount |-> mount]

\* Lines 108 and 119 without cwd=ACTIVE_PROJECT_PATH in effect: the host
\* subprocess starts in the directory the module was loaded with.
ExecShellFixedCwd(handle, cont, path, args) ==
    IF Exists(handle)
    THEN {Executed(<<"Error", " executing command in docker: ", "500 Server ",
                     "Error">>, "sandbox", FALSE, cont.mount)}
    ELSE IF args.background
         THEN {Executed(<<"Command started in background (PID: ", "4242", ").">>,
                        "host", TRUE, P1)}
         ELSE {Executed(out, "host", TRUE, P1) : out \in CmdOutputs}

\* The body of run_shell after get_sandbox(): it returns a string on every path.
ExecShell(handle, cont, path, args) ==
    IF Exists(handle)
    THEN IF handle.id = cont.id /\ cont.status = "running"
         THEN (IF args.background
               THEN {Executed(<<"Command started in background.">>,
                              "sandbox", TRUE, cont.mount)}
               ELSE {Executed(out, "sandbox", TRUE, cont.mount) : out \in CmdOutputs})
              \cup
              {Executed(<<"Error", " executing command in docker: ", "500 Server ",
                          "Error">>, "sandbox", FALSE, cont.mount)}
         ELSE \* the instance the handle names is gone or stopped
              {Executed(<<"Error", " executing command in docker: ",
                          "404 No such container">>, "sandbox", FALSE, handle.mount)}
    ELSE (IF args.background
          THEN {Executed(<<"Command started in background (PID: ", "4242", ").">>,
                         "host", TRUE, path)}
          ELSE {Executed(out, "host", TRUE, path) : out \in CmdOutputs})
         \cup
         {Executed(<<"Error", " executing local command: ",
                     "[Errno 2] No such file or directory">>, "host", FALSE, path)}

ShellOutcome(raised, text, where, ran, mount, how, cont, nid) ==
    [raised |-> raised, ret |-> text, where |-> where, ran |-> ran,
     mount |-> mount, acquire |-> how, container |-> cont, nextId |-> nid]

\* run_shell(command, background), start to end.
RunShell(dc, cont, path, nid, args) ==
    UNION { IF a.raised
            THEN {ShellOutcome(TRUE, a.exc, "none", FALSE, <<>>, a.acquire,
                               a.container, a.nextId)}
            ELSE {ShellOutcome(FALSE, e.ret, e.where, e.ran, e.mount, a.acquire,
                               a.container, a.nextId)
                    : e \in ExecShell(a.handle, a.container, path, args)}
          : a \in GetSandbox(dc, cont, path, nid) }

\* set_active_project, lines 42-50: the outcomes of the removal attempt.
RemoveSandbox(dc, cont) ==
    IF ~dc THEN {cont}
    ELSE IF Exists(cont)
    THEN {NoContainer,      \* remove(force=True) succeeded
          cont}             \* get or remove raised: printed, the instance stays
    ELSE {cont}             \* NotFound, or a fault: nothing to remove

NoRet == [kind |-> "none", text |-> NoText, where |-> "none", ran |-> FALSE,
          mount |-> <<>>, acquire |-> "none"]

\* set_active_project(path), line 38: the path is switched first.
SwitchPath(path) ==
    /\ sw_pc = "idle"
    /\ nSwitch < MaxSwitches
    /\ ACTIVE_PROJECT_PATH' = path
    /\ sw_pc' = "remove"
    /\ sw_old' = container
    /\ nSwitch' = nSwitch + 1
    /\ rs_overlap' = (rs_overlap \/ rs_pc = "acquired")
    /\ UNCHANGED <<docker_client, container, nextId, host_runs, sandbox_runs,
                   instances, rs_pc, rs_args, rs_handle, ret, nShell>>
    /\ UNCHANGED <<runVars, runnerVars>>

\* set_active_project(path) called on its own.
SetActiveProjectBegin(path) ==
    /\ SwitchPath(path)
    /\ UNCHANGED <<fsVars, projVars>>

\* set_active_project, lines 42-50, then return.
SetActiveProjectRemove ==
    /\ sw_pc = "remove"
    /\ container' \in RemoveSandbox(docker_client, container)
    /\ instances' = IF Exists(container) /\ ~Exists(container')
                    THEN instances \ {container.id}
                    ELSE instances
    /\ sw_pc' = "idle"
    /\ UNCHANGED <<ACTIVE_PROJECT_PATH, docker_client, nextId, host_runs,
                   sandbox_runs, sw_old, rs_pc, rs_args, rs_handle, ret,
                   nSwitch, nShell, rs_overlap>>
    /\ UNCHANGED <<runVars, fsVars, uiVars>>

\* run_shell, line 85: container = get_sandbox()
RunShellAcquire(args) ==
    /\ rs_pc = "idle"
    /\ nShell < MaxShellCalls
    /\ nShell' = nShell + 1
    /\ rs_args' = args
    /\ rs_overlap' = (sw_pc = "remove")
    /\ \E a \in GetSandbox(docker_client, container, ACTIVE_PROJECT_PATH, nextId) :
          /\ container' = a.container
          /\ nextId' = a.nextId
          /\ instances' = InstancesAfter(instances, nextId, a.nextId)
          /\ IF a.raised
             THEN /\ rs_pc' = "idle"
                  /\ rs_handle' = NoContainer
                  /\ ret' = [kind |-> "raise", text |-> a.exc, where |-> "none",
                             ran |-> FALSE, mount |-> <<>>, acquire |-> a.acquire]
             ELSE /\ rs_pc' = "acquired"
                  /\ rs_handle' = a.handle
                  /\ ret' = [NoRet EXCEPT !.acquire = a.acquire]
    /\ UNCHANGED <<ACTIVE_PROJECT_PATH, docker_client, host_runs, sandbox_runs,
                   sw_pc, sw_old, nSwitch>>
    /\ UNCHANGED <<runVars, fsVars, uiVars>>

\* run_shell, lines 86-123: exec in the sandbox, or the host fallback.
RunShellExec ==
    /\ rs_pc = "acquired"
    /\ \E e \in ExecShell(rs_handle, container, ACTIVE_PROJECT_PATH, rs_args) :
          /\ ret' = [kind |-> "return", text |-> e.ret, where |-> e.where,
                     ran |-> e.ran, mount |-> e.mount, acquire |-> ret.acquire]
          /\ host_runs' = IF e.where = "host" /\ e.ran
                          THEN host_runs \cup {<<rs_args.command, e.mount>>}
                          ELSE host_runs
          /\ sandbox_runs' = IF e.where = "sandbox" /\ e.ran
                             THEN sandbox_runs \cup {<<rs_args.command, e.mount>>}
                             ELSE sandbox_runs
    /\ rs_pc' = "idle"
    /\ UNCHANGED <<ACTIVE_PROJECT_PATH, docker_client, container, nextId, instances,
                   sw_pc, sw_old, rs_args, rs_handle, nSwitch, nShell, rs_overlap>>
    /\ UNCHANGED <<runVars, fsVars, uiVars>>

\* The sandbox's main process exits (docker stop, a crash): the instance stays, stopped.
ContainerExits ==
    /\ container.status = "running"
    /\ container' = [container EXCEPT !.status = "exited"]
    /\ UNCHANGED <<ACTIVE_PROJECT_PATH, docker_client, nextId, host_runs,
                   sandbox_runs, instances, directVars, uiVars>>
    /\ UNCHANGED <<runVars, fsVars>>

(***************************************************************************)
(* Messages, tool calls and what the model capability may answer.          *)
(***************************************************************************)
NoCalls == <<>>
Msg(type, content, calls, callId) ==
    [type |-> type, content |-> content, tool_calls |-> calls, tool_call_id |-> callId]
HumanMessage(content) == Msg("human", content, NoCalls, NoText)
AIMessage(content, calls) == Msg("ai", content, calls, NoText)
SystemMessage(content) == Msg("system", content, NoCalls, NoText)
ToolMessage(callId, content) == Msg("tool", content, NoCalls, callId)

Args(path, content, command, background, query) ==
    [path |-> path, content |-> content, command |-> command,
     background |-> background, query |-> query]
ToolCall(id, name, args) == [id |-> id, name |-> name, args |-> args]

WriteCall(id, p, content) ==
    ToolCall(id, "write_file", Args(p, content, NoText, FALSE, NoText))
ReadCall(id, p) == ToolCall(id, "read_file", Args(p, NoText, NoText, FALSE, NoText))
ListCall(id, p) == ToolCall(id, "list_files", Args(p, NoText, NoText, FALSE, NoText))
ShellCall(id, cmd, bg) == ToolCall(id, "run_shell", Args(NoPath, NoText, cmd, bg, NoText))
SearchCall(id, q) ==
    ToolCall(id, "search_codebase", Args(NoPath, NoText, NoText, FALSE, q))
BogusCall(id) == ToolCall(id, "delete_file", Args(NoPath, NoText, NoText, FALSE, NoText))

ToolNames == {"search_codebase", "run_shell", "write_file", "read_file", "list_files"}

\* Tool call ids are the model's: opaque strings.
IdA == <<"call_A1">>
IdB == <<"call_B2">>
IdE == <<"call_9x", "Error", "Zq">>

\* The tool-call lists the model capability answers with.
Batches == {
    <<WriteCall(IdA, Rel(<<"a.txt">>), <<"X">>)>>,
    <<WriteCall(IdA, Rel(<<"d">>), <<"X">>)>>,
    <<WriteCall(IdA, Rel(<<"a.txt", "z">>), <<"X">>)>>,
    <<WriteCall(IdA, Rel(<<"..", "x">>), <<"X">>),
      WriteCall(IdB, Abs(<<"etc", "x">>), <<"X">>)>>,
    <<BogusCall(IdA), ReadCall(IdB, Rel(<<"a.txt">>))>>,
    <<WriteCall(IdA, Rel(<<"ro.txt">>), <<"X">>), BogusCall(IdB)>>,
    <<ReadCall(IdA, Rel(<<"n", "f.txt">>))>>,
    <<ListCall(IdE, Rel(<<".">>))>>,
    <<ListCall(IdA, Rel(<<"d">>))>>,
    <<WriteCall(IdA, Rel(<<"n", "f.txt">>), <<"X">>),
      WriteCall(IdB, Rel(<<"n", "f.txt">>), <<"X">>)>>,
    <<ListCall(IdA, Rel(<<".">>)), BogusCall(IdB), ReadCall(IdE, Rel(<<"d">>))>>,
    <<ShellCall(IdA, <<"pytest">>, FALSE)>>,
    <<ShellCall(IdA, <<"pytest">>, TRUE), SearchCall(IdB, <<"parser">>)>> }

\* The text the model puts beside a request for tools: mostly none.
TurnText(b) ==
    IF b = <<WriteCall(IdA, Rel(<<"a.txt">>), <<"X">>)>>
    THEN <<"Working on it.">>
    ELSE NoText

\* AgentTurns that request tools, and the texts of those that do not.
ToolTurns == {AIMessage(TurnText(b), b) : b \in Batches}
FinalTexts == {NoText, <<"Done.">>}
UserTexts == {<<"fix the parser">>}

ModelFault == <<"Connection error.">>

\* rag_engine.search (vector_store.py 85-92): a string on every path.
SearchOutcomes ==
    { <<"RAG functionality is unavailable (init failed).">>,
      <<"Source: ", "a.py", "\nContent:\n", "def parse(): ...">>,
      <<"Search error: ", "timed out">> }

(***************************************************************************)
(* The graph (agent_graph.py 172-270) under chat_post (main.py 294-374).   *)
(***************************************************************************)
Absent == <<"<absent>">>
ErrorMessage == <<"Last command failed. Fix it.">>

\* chat_post, lines 300-308
ToMessage(entry) ==
    CASE entry.role = "User" -> HumanMessage(entry.content)
      [] entry.role = "Agent" -> AIMessage(entry.content, NoCalls)
      [] OTHER -> SystemMessage(entry.content)

HistoryEntry(role, content) == [role |-> role, content |-> content]

\* The character the log lines quote a path or a command with (a backquote).
Quote == "<backquote>"

\* chat_post, lines 327-342: the log line of one requested tool call.  The
\* commands of the model are shorter than the 50 characters line 337 cuts at.
LogContent(tc) ==
    CASE tc.name = "write_file" ->
            <<"Creating/Editing file: ", Quote>> \o PathStr(tc.args.path) \o <<Quote>>
      [] tc.name = "read_file" ->
            <<"Reading file: ", Quote>> \o PathStr(tc.args.path) \o <<Quote>>
      [] tc.name = "run_shell" ->
            <<"Running command: ", Quote>> \o tc.args.command \o <<Quote>>
      [] tc.name = "list_files" ->
            <<"Listing directory: ", Quote>> \o PathStr(tc.args.path) \o <<Quote>>
      [] tc.name = "search_codebase" ->
            <<"Searching codebase for: '">> \o tc.args.query \o <<"'">>
      [] OTHER -> <<"Using ", tc.name>>

\* chat_post, lines 324-344
InvocationLog(calls) ==
    [i \in DOMAIN calls |-> HistoryEntry("System", LogContent(calls[i]))]

\* tool_node, line 239: str(results), the repr of a list of dicts.
StrResults(res) ==
    <<"[">>
      \o JoinSep([i \in DOMAIN res |->
                    <<"{'tool_call_id': '">> \o res[i].tool_call_id
                        \o <<"', 'output': '">> \o res[i].output \o <<"'}">>],
                 <<", ">>)
      \o <<"]">>

\* Lines 233-237 building the tool messages from the last result to the first.
ToolMessagesReversed(res) ==
    [i \in DOMAIN res |->
        ToolMessage(res[Len(res) + 1 - i].tool_call_id, res[Len(res) + 1 - i].output)]

\* tool_node, lines 233-237
ToolMessages(res) ==
    [i \in DOMAIN res |-> ToolMessage(res[i].tool_call_id, res[i].output)]

Dispatched(raised, text, fsys, opened, cont, nid, hostRan, sandboxRan) ==
    [raised |-> raised, ret |-> text, fs |-> fsys, opened |-> opened,
     container |-> cont, nextId |-> nid, host |-> hostRan, sandbox |-> sandboxRan]

FileDispatched(o) ==
    Dispatched(o.raised, o.ret, o.fs, o.opened, container, nextId, {}, {})

\* tool_node, lines 212-226: one tool call, every outcome it can have.
Dispatch(tc) ==
    CASE tc.name = "search_codebase" ->
            {Dispatched(FALSE, out, fs, {}, container, nextId, {}, {})
                : out \in SearchOutcomes}
      [] tc.name = "run_shell" ->
            {Dispatched(o.raised, o.ret, fs, {}, o.container, o.nextId,
                        IF o.where = "host" /\ o.ran
                            THEN {<<tc.args.command, o.mount>>} ELSE {},
                        IF o.where = "sandbox" /\ o.ran
                            THEN {<<tc.args.command, o.mount>>} ELSE {})
                : o \in RunShell(docker_client, container, ACTIVE_PROJECT_PATH, nextId,
                                 [command |-> tc.args.command,
                                  background |-> tc.args.background])}
      [] tc.name = "write_file" ->
            {FileDispatched(WriteFile(fs, ACTIVE_PROJECT_PATH, tc.args.path,
                                      tc.args.content))}
      [] tc.name = "read_file" ->
            {FileDispatched(ReadFile(fs, ACTIVE_PROJECT_PATH, tc.args.path))}
      [] tc.name = "list_files" ->
            {FileDispatched(ListFiles(fs, ACTIVE_PROJECT_PATH, tc.args.path))}
      [] OTHER ->
            {Dispatched(FALSE, <<"Unknown tool">>, fs, {}, container, nextId, {}, {})}

\* verifier_node, lines 243-246
Verify(last_output) ==
    IF Contains(last_output, "Error") \/ Contains(last_output, "Exception")
    THEN ErrorMessage
    ELSE NoText

\* should_continue with a confirmation gate: tools are dispatched only when a
\* user turn saying yes follows an AgentTurn of the conversation.
ShouldContinueConfirmed(msgs) ==
    IF /\ msgs[Len(msgs)].tool_calls # NoCalls
       /\ \E i, j \in DOMAIN msgs :
             /\ i < j
             /\ msgs[i].type = "ai"
             /\ msgs[j].type = "human" /\ msgs[j].content = <<"yes">>
    THEN "tools"
    ELSE "end"

\* should_continue, lines 249-254
should_continue(msgs) ==
    IF msgs[Len(msgs)].tool_calls # NoCalls THEN "tools" ELSE "end"

\* Line 360 without its not last_msg.tool_calls: any agent text counts as final.
FinalTextAnyAi(last_msg, previous) ==
    IF last_msg.type = "ai" /\ last_msg.content # NoText
    THEN last_msg.content
    ELSE previous

\* chat_post, line 360: the text a streamed executor message leaves in final_text.
FinalText(last_msg, previous) ==
    IF last_msg.type = "ai" /\ last_msg.tool_calls = NoCalls /\ last_msg.content # NoText
    THEN last_msg.content
    ELSE previous

\* chat_post, lines 347-357: a streamed message is logged as a tool output when it
\* has an attribute role equal to 'tool'.  The executor streams AIMessage objects
\* and tool_node streams plain dicts: neither has such an attribute.
HasRoleAttribute(kind) == kind \notin {"AIMessage", "dict"}

ToolOutputLog(kind, msgs) ==
    IF HasRoleAttribute(kind)
    THEN [i \in DOMAIN msgs |->
            IF Contains(msgs[i].content, "Error") \/ Contains(msgs[i].content, "Exception")
            THEN HistoryEntry("System", <<"Tool ", "Error", ": ">> \o msgs[i].content)
            ELSE HistoryEntry("System", <<"Action completed successfully.">>)]
    ELSE <<>>

\* POST /chat, lines 296-316: the user turn is stored and the graph started.
ChatPost(message) ==
    /\ pc = "idle"
    /\ chat_history' = Append(chat_history, HistoryEntry("User", message))
    /\ history_objs' = [i \in DOMAIN chat_history' |-> ToMessage(chat_history'[i])]
    /\ messages' = history_objs'
    /\ plan' = <<>>
    /\ error' = Absent
    /\ last_tool_output' = Absent
    /\ results' = <<>>
    /\ final_text' = NoText
    /\ exc' = NoText
    /\ llm_input' = <<>>
    /\ pc' = "planner"
    /\ UNCHANGED <<modelCalls, fsVars, sandboxVars, directVars, uiVars>>

\* planner_node returning an empty conversation besides the plan.
PlannerClearsLog ==
    /\ pc = "planner"
    /\ plan' = <<"Execute user request">>
    /\ messages' = <<>>
    /\ pc' = "executor"
    /\ UNCHANGED <<chat_history, history_objs, error, last_tool_output,
                   results, final_text, exc, modelCalls, llm_input, fsVars, sandboxVars,
                   directVars, uiVars>>

\* planner_node
Planner ==
    /\ pc = "planner"
    /\ plan' = <<"Execute user request">>
    /\ pc' = "executor"
    /\ UNCHANGED <<chat_history, history_objs, messages, error, last_tool_output,
                   results, final_text, exc, modelCalls, llm_input, fsVars, sandboxVars,
                   directVars, uiVars>>

\* executor_node, lines 179-202: the system prompt, then the conversation.  No
\* other field of the state goes into the call.
SystemPrompt == SystemMessage(<<"You are CodePilot, an expert software engineer assistant.">>)
ModelInput(msgs) == <<SystemPrompt>> \o msgs

\* executor_node, the branch after it, and chat_post's handling of its event.
Executor(response) ==
    /\ pc = "executor"
    /\ modelCalls < MaxModelCalls
    /\ modelCalls' = modelCalls + 1
    /\ llm_input' = ModelInput(messages)
    /\ messages' = Append(messages, response)
    /\ chat_history' = chat_history \o InvocationLog(response.tool_calls)
                                    \o ToolOutputLog("AIMessage", <<response>>)
    /\ final_text' = FinalText(response, final_text)
    /\ pc' = should_continue(messages')
    /\ results' = <<>>
    /\ UNCHANGED <<history_objs, plan, error, last_tool_output, exc, fsVars,
                   sandboxVars, directVars, uiVars>>

\* executor_node: llm.invoke raises.
ExecutorFault ==
    /\ pc = "executor"
    /\ modelCalls < MaxModelCalls
    /\ modelCalls' = modelCalls + 1
    /\ llm_input' = ModelInput(messages)
    /\ exc' = ModelFault
    /\ pc' = "raised"
    /\ UNCHANGED <<chat_history, history_objs, messages, plan, error,
                   last_tool_output, results, final_text, fsVars, sandboxVars,
                   directVars, uiVars>>

\* tool_node, one pass of the loop of lines 211-230.
ToolCallStep ==
    /\ pc = "tools"
    /\ LET calls == messages[Len(messages)].tool_calls IN
       /\ Len(results) < Len(calls)
       /\ LET tc == calls[Len(results) + 1] IN
          \E o \in Dispatch(tc) :
             /\ fs' = o.fs
             /\ touched' = touched \cup o.opened
             /\ container' = o.container
             /\ nextId' = o.nextId
             /\ instances' = InstancesAfter(instances, nextId, o.nextId)
             /\ host_runs' = host_runs \cup o.host
             /\ sandbox_runs' = sandbox_runs \cup o.sandbox
             /\ IF o.raised
                THEN /\ exc' = o.ret
                     /\ pc' = "raised"
                     /\ UNCHANGED results
                ELSE /\ results' = Append(results,
                            [tool_call_id |-> tc.id, output |-> o.ret])
                     /\ UNCHANGED <<exc, pc>>
    /\ UNCHANGED <<chat_history, history_objs, messages, plan, error,
                   last_tool_output, final_text, modelCalls, llm_input,
                   ACTIVE_PROJECT_PATH,
                   docker_client, directVars, uiVars>>

\* tool_node, lines 232-239, and chat_post's handling of its event.
ToolsReturn ==
    /\ pc = "tools"
    /\ Len(results) = Len(messages[Len(messages)].tool_calls)
    /\ messages' = messages \o ToolMessages(results)
    /\ last_tool_output' = StrResults(results)
    /\ chat_history' = chat_history \o ToolOutputLog("dict", ToolMessages(results))
    /\ pc' = "verifier"
    /\ UNCHANGED <<history_objs, plan, error, results, final_text, exc,
                   modelCalls, llm_input, fsVars, sandboxVars, directVars, uiVars>>

\* The edge after the verifier taken as a branch on the flag: a set flag ends
\* the run.
VerifierHaltsOnError ==
    /\ pc = "verifier"
    /\ error' = Verify(last_tool_output)
    /\ pc' = IF error' # NoText THEN "end" ELSE "executor"
    /\ UNCHANGED <<chat_history, history_objs, messages, plan, last_tool_output,
                   results, final_text, exc, modelCalls, llm_input, fsVars, sandboxVars,
                   directVars, uiVars>>

\* verifier_node, then the edge back to the executor.
Verifier ==
    /\ pc = "verifier"
    /\ error' = Verify(last_tool_output)
    /\ pc' = "executor"
    /\ UNCHANGED <<chat_history, history_objs, messages, plan, last_tool_output,
                   results, final_text, exc, modelCalls, llm_input, fsVars, sandboxVars,
                   directVars, uiVars>>

\* chat_post, lines 366-367 and 374: the stream ended.
ChatFinish ==
    /\ pc = "end"
    /\ chat_history' = IF final_text # NoText
                       THEN Append(chat_history, HistoryEntry("Agent", final_text))
                       ELSE chat_history
    /\ pc' = "idle"
    /\ UNCHANGED <<history_objs, messages, plan, error, last_tool_output, results,
                   final_text, exc, modelCalls, llm_input, fsVars, sandboxVars, directVars, uiVars>>

\* Line 370 assigning the history instead of appending to it.
ChatExceptAssigns ==
    /\ pc = "raised"
    /\ chat_history' = <<HistoryEntry("System", <<"Error", ": ">> \o exc)>>
    /\ pc' = "idle"
    /\ UNCHANGED <<history_objs, messages, plan, error, last_tool_output, results,
                   final_text, exc, modelCalls, llm_input, fsVars, sandboxVars, directVars, uiVars>>

\* chat_post, lines 369-374: an exception left the graph.
ChatExcept ==
    /\ pc = "raised"
    /\ chat_history' = Append(chat_history,
                              HistoryEntry("System", <<"Error", ": ">> \o exc))
    /\ pc' = "idle"
    /\ UNCHANGED <<history_objs, messages, plan, error, last_tool_output, results,
                   final_text, exc, modelCalls, llm_input, fsVars, sandboxVars, directVars, uiVars>>

(***************************************************************************)
(* The editor's runner (main.py 220-286): /editor/run starts a thread that *)
(* launches the file and waits for it, /editor/stop terminates the process *)
(* the one shared handle names.                                            *)
(***************************************************************************)
\* state.running_process = None
NoProcess == 0

MaxRuns == 2
MaxStops == 2

\* GlobalState.__init__: the first line of the terminal.
Welcome == <<"Welcome to CodePilot Terminal.">>

\* Files the editor is asked to run; gone.py does not exist.
RunTargets == { <<"p1", "main.py">>, <<"p1", "job.sh">>, <<"p1", "notes.txt">>,
                <<"p1", "gone.py">> }

\* A project directory holding a Python script, a shell script and a text file.
FsRunner ==
    [loc \in RunTargets \cup {P1} |->
        CASE loc = P1 -> Entry("dir", NoText)
          [] loc = <<"p1", "gone.py">> -> Entry("none", NoText)
          [] OTHER -> Entry("file", <<"...">>)]

\* os.path.splitext(current_path)[1].lower() of the targets.
SplitExt(loc) ==
    CASE loc[Len(loc)] \in {"main.py", "gone.py"} -> ".py"
      [] loc[Len(loc)] = "job.sh" -> ".sh"
      [] loc[Len(loc)] = "app.js" -> ".js"
      [] loc[Len(loc)] = "notes.txt" -> ".txt"
      [] OTHER -> ""

\* run_code lines 229-234: the interpreter of an extension, <<>> when none.
Runner(ext) ==
    CASE ext = ".py" -> <<"python3">>
      [] ext = ".js" -> <<"node">>
      [] ext = ".sh" -> <<"bash">>
      [] OTHER -> <<>>

\* The lines run_code, run_proc and stop_code append to the terminal.
NoFileLine == <<"Error: No file selected to run.">>
NoRunnerLine(ext) == <<"Error: No runner configured for ", ext>>
PromptLine(cmd) == <<"$ ">> \o cmd
OutputLine(out) == out
FinishedLine(code) == <<"[Process finished with exit code ", code, "]">>
ErrorExecutionLine(e) == <<"Error execution: ">> \o e
TerminatedLine == <<"^C [Process terminated by user]">>
NothingToStopLine == <<"No running process to stop.">>

\* str of the AttributeError raised by reading a field of None.
NoneHasNo(field) == <<"'NoneType' object has no attribute '", field, "'">>
\* str of the ValueError raised by reading a pipe another communicate() closed.
ClosedFile == <<"I/O operation on closed file">>

\* What a process writes to its pipes.
OutputOf(cmd) == <<"<output of ">> \o cmd \o <<">">>
\* Exit statuses of a process that ends by itself; a terminated one has -15.
ExitCodes == {"0", "1"}
Sigterm == "-15"

\* A Popen object and its process: returncode is the attribute, "None" until a
\* poll or wait has seen the process end; drained says that a communicate()
\* has read the pipes to their end and closed them.
NewProcess(cmd, cwd) ==
    [cmd |-> cmd, cwd |-> cwd, status |-> "running", code |-> "None",
     returncode |-> "None", drained |-> FALSE]

\* A run_proc thread: its position, its command, the Popen object it is
\* communicating with, what it read from the pipes, the exception it caught.
NewThread(cmd) ==
    [pc |-> "launch", cmd |-> cmd, h |-> NoProcess, out |-> NoText, e |-> NoText]

\* No handler of the event loop is in progress: the handlers are coroutines
\* without an await, so one runs to its end before the next begins.
LoopFree == stop_pc = "idle" /\ run_pc = "idle"

\* /editor/run up to t.start(), then t.join(timeout=0.5) begins.
RunCode(current_path) ==
    /\ LoopFree /\ nRun < MaxRuns
    /\ nRun' = nRun + 1
    /\ LET ext == SplitExt(current_path)
           cmd == Runner(ext) \o <<" ">> \o LocStr(current_path)
       IN IF Kind(fs, current_path) = "none"
          THEN /\ terminal_history' = Append(terminal_history, NoFileLine)
               /\ UNCHANGED <<threads, run_pc>>
          ELSE IF Runner(ext) = <<>>
          THEN /\ terminal_history' = Append(terminal_history, NoRunnerLine(ext))
               /\ UNCHANGED <<threads, run_pc>>
          ELSE /\ terminal_history' = Append(terminal_history, PromptLine(cmd))
               /\ threads' = Append(threads, NewThread(cmd))
               /\ run_pc' = "join"
    /\ UNCHANGED <<running_process, procs, stop_pc, nStop, projVars>>
    /\ UNCHANGED <<runVars, fsVars, sandboxVars, directVars>>

\* t.join(timeout=0.5) returns, the thread ended or not, and the handler ends.
RunCodeReturn ==
    /\ run_pc = "join"
    /\ run_pc' = "idle"
    /\ UNCHANGED <<running_process, terminal_history, procs, threads, stop_pc, nRun,
                   nStop, projVars>>
    /\ UNCHANGED <<runVars, fsVars, sandboxVars, directVars>>

\* The frame of a step of thread i.
ThreadStep(i, t) ==
    /\ threads' = [threads EXCEPT ![i] = t]
    /\ UNCHANGED <<stop_pc, run_pc, nRun, nStop, projVars>>
    /\ UNCHANGED <<runVars, fsVars, sandboxVars, directVars>>

\* run_proc lines 248-255: Popen starts the process and the handle names it.
RunnerLaunch(i) ==
    /\ threads[i].pc = "launch"
    /\ procs' = Append(procs, NewProcess(threads[i].cmd, PROJECT_ROOT))
    /\ running_process' = Len(procs) + 1
    /\ ThreadStep(i, [threads[i] EXCEPT !.pc = "communicate"])
    /\ UNCHANGED terminal_history

\* Line 256, first half: state.running_process is read again and
\* communicate() is entered on the object found there.
RunnerEnterCommunicate(i) ==
    /\ threads[i].pc = "communicate"
    /\ IF running_process = NoProcess
       THEN ThreadStep(i, [threads[i] EXCEPT !.pc = "except",
                                             !.e = NoneHasNo("communicate")])
       ELSE ThreadStep(i, [threads[i] EXCEPT !.pc = "communicating",
                                             !.h = running_process])
    /\ UNCHANGED <<running_process, terminal_history, procs>>

\* Line 256, second half: communicate() returns once the process has ended.
\* On pipes that another communicate() has drained and closed it returns
\* nothing or raises.
RunnerCommunicateReturns(i) ==
    /\ threads[i].pc = "communicating"
    /\ LET p == threads[i].h IN
       /\ procs[p].status = "ended"
       /\ procs' = [procs EXCEPT ![p].returncode = procs[p].code, ![p].drained = TRUE]
       /\ IF procs[p].drained
          THEN \/ ThreadStep(i, [threads[i] EXCEPT !.pc = "output", !.out = NoText])
               \/ ThreadStep(i, [threads[i] EXCEPT !.pc = "except", !.e = ClosedFile])
          ELSE ThreadStep(i, [threads[i] EXCEPT !.pc = "output",
                                                !.out = OutputOf(procs[p].cmd)])
    /\ UNCHANGED <<running_process, terminal_history>>

\* Line 257.
RunnerAppendOutput(i) ==
    /\ threads[i].pc = "output"
    /\ terminal_history' = Append(terminal_history, OutputLine(threads[i].out))
    /\ ThreadStep(i, [threads[i] EXCEPT !.pc = "report"])
    /\ UNCHANGED <<running_process, procs>>

\* Line 258: state.running_process is read again for its returncode.
RunnerReport(i) ==
    /\ threads[i].pc = "report"
    /\ IF running_process = NoProcess
       THEN /\ ThreadStep(i, [threads[i] EXCEPT !.pc = "except",
                                                !.e = NoneHasNo("returncode")])
            /\ UNCHANGED terminal_history
       ELSE /\ terminal_history' =
                   Append(terminal_history, FinishedLine(procs[running_process].returncode))
            /\ ThreadStep(i, [threads[i] EXCEPT !.pc = "clear"])
    /\ UNCHANGED <<running_process, procs>>

\* Line 259.
RunnerClear(i) ==
    /\ threads[i].pc = "clear"
    /\ running_process' = NoProcess
    /\ ThreadStep(i, [threads[i] EXCEPT !.pc = "done"])
    /\ UNCHANGED <<terminal_history, procs>>

\* Lines 260-261.
RunnerExcept(i) ==
    /\ threads[i].pc = "except"
    /\ terminal_history' = Append(terminal_history, ErrorExecutionLine(threads[i].e))
    /\ ThreadStep(i, [threads[i] EXCEPT !.pc = "done"])
    /\ UNCHANGED <<running_process, procs>>

\* A launched program ends by itself.
ProcExits(p, code) ==
    /\ procs[p].status = "running"
    /\ procs' = [procs EXCEPT ![p].status = "ended", ![p].code = code]
    /\ UNCHANGED <<running_process, terminal_history, threads, stop_pc, run_pc, nRun,
                   nStop, projVars>>
    /\ UNCHANGED <<runVars, fsVars, sandboxVars, directVars>>

\* The frame of a step of /editor/stop.
StopStep(next) ==
    /\ stop_pc' = next
    /\ UNCHANGED <<threads, run_pc, nRun, projVars>>
    /\ UNCHANGED <<runVars, fsVars, sandboxVars, directVars>>

\* stop_code line 279, and lines 283-284 when the handle is None.
StopCheck ==
    /\ LoopFree /\ nStop < MaxStops
    /\ nStop' = nStop + 1
    /\ IF running_process = NoProcess
       THEN /\ terminal_history' = Append(terminal_history, NothingToStopLine)
            /\ StopStep("idle")
       ELSE /\ StopStep("terminate")
            /\ UNCHANGED terminal_history
    /\ UNCHANGED <<running_process, procs>>

\* Line 280: state.running_process is read again and terminate() is called
\* on it; on None the AttributeError ends the handler.  terminate() polls the
\* process first and signals it only if it has not ended.
StopTerminate ==
    /\ stop_pc = "terminate"
    /\ IF running_process = NoProcess
       THEN /\ StopStep("idle")
            /\ UNCHANGED procs
       ELSE /\ StopStep("clear")
            /\ LET p == running_process IN
               procs' = IF procs[p].status = "running"
                        THEN [procs EXCEPT ![p].status = "ended", ![p].code = Sigterm]
                        ELSE [procs EXCEPT ![p].returncode = procs[p].code]
    /\ UNCHANGED <<running_process, terminal_history, nStop>>

\* Line 281.
StopClear ==
    /\ stop_pc = "clear"
    /\ running_process' = NoProcess
    /\ StopStep("notice")
    /\ UNCHANGED <<terminal_history, procs, nStop>>

\* Line 282.
StopNotice ==
    /\ stop_pc = "notice"
    /\ terminal_history' = Append(terminal_history, TerminatedLine)
    /\ StopStep("idle")
    /\ UNCHANGED <<running_process, procs, nStop>>

(***************************************************************************)
(* The project handlers (main.py 377-395).  A handler runs on the event    *)
(* loop up to the Docker removal inside set_active_project, which          *)
(* SetActiveProjectRemove completes; the tools and the sandbox run in      *)
(* threads meanwhile.                                                      *)
(***************************************************************************)
MaxProjectRequests == 2

NoRequest == [n |-> 0, op |-> "none", path |-> <<>>]
Request(op, path) == [n |-> project_req.n + 1, op |-> op, path |-> path]

\* Two project directories, a file, and two places where nothing is yet.
FsProject ==
    [loc \in {P1, P2, <<"p1", "a.txt">>, <<"p1", "new">>, <<"p3">>} |->
        CASE loc \in {P1, P2} -> Entry("dir", NoText)
          [] loc = <<"p1", "a.txt">> -> Entry("file", <<"hello">>)
          [] OTHER -> Entry("none", NoText)]

OpenPaths == {P1, P2, <<"p1", "a.txt">>, <<"p3">>, <<"p1", "new">>}
CreatePaths == {P1}
CreateNames == {Rel(<<"new">>), Rel(<<"a.txt">>), Abs(P2)}

\* A request that changes neither root.
ProjectUntouched ==
    /\ UNCHANGED <<PROJECT_ROOT, sandboxVars, directVars>>
    /\ UNCHANGED <<runVars, runnerVars>>

\* open_project assigning PROJECT_ROOT before the os.path.isdir test.
OpenProjectUnchecked(path) ==
    /\ sw_pc = "idle" /\ project_req.n < MaxProjectRequests
    /\ project_req' = Request("open", path)
    /\ PROJECT_ROOT' = path
    /\ IF Kind(fs, path) = "dir"
       THEN SwitchPath(path)
       ELSE /\ UNCHANGED <<sandboxVars, directVars>>
            /\ UNCHANGED <<runVars, runnerVars>>
    /\ UNCHANGED fsVars

\* /project/open
OpenProject(path) ==
    /\ sw_pc = "idle" /\ project_req.n < MaxProjectRequests
    /\ project_req' = Request("open", path)
    /\ IF Kind(fs, path) = "dir"
       THEN /\ PROJECT_ROOT' = path
            /\ SwitchPath(path)
       ELSE ProjectUntouched
    /\ UNCHANGED fsVars

\* /project/create: os.makedirs raises when a component of the path is a
\* file, and the handler ends there.
CreateProject(projectPath, projectName) ==
    /\ sw_pc = "idle" /\ project_req.n < MaxProjectRequests
    /\ LET full_path == JoinPath(projectPath, projectName)
           made == MakeDirs(fs, full_path)
       IN /\ project_req' = Request("create", full_path)
          /\ fs' = made.fs
          /\ IF made.ok
             THEN /\ PROJECT_ROOT' = full_path
                  /\ SwitchPath(full_path)
             ELSE ProjectUntouched
    /\ UNCHANGED touched

(***************************************************************************)
(* Specifications                                                          *)
(***************************************************************************)
InitWith(dc, fsys) ==
    /\ chat_history = <<>>
    /\ history_objs = <<>>
    /\ messages = <<>>
    /\ plan = <<>>
    /\ error = Absent
    /\ last_tool_output = Absent
    /\ pc = "idle"
    /\ results = <<>>
    /\ final_text = NoText
    /\ exc = NoText
    /\ modelCalls = 0
    /\ llm_input = <<>>
    /\ fs = fsys
    /\ touched = {}
    /\ ACTIVE_PROJECT_PATH = P1
    /\ docker_client = dc
    /\ container = NoContainer
    /\ nextId = 1
    /\ host_runs = {}
    /\ sandbox_runs = {}
    /\ sw_pc = "idle"
    /\ sw_old = NoContainer
    /\ rs_pc = "idle"
    /\ rs_args = [command |-> NoText, background |-> FALSE]
    /\ rs_handle = NoContainer
    /\ ret = NoRet
    /\ nSwitch = 0
    /\ nShell = 0
    /\ rs_overlap = FALSE
    /\ instances = {}
    /\ PROJECT_ROOT = P1
    /\ project_req = NoRequest
    /\ running_process = NoProcess
    /\ terminal_history = <<Welcome>>
    /\ procs = <<>>
    /\ threads = <<>>
    /\ stop_pc = "idle"
    /\ run_pc = "idle"
    /\ nRun = 0
    /\ nStop = 0

InitState(dc) == InitWith(dc, FsInit)

\* docker.from_env() gave a client, the usual case.
Init == InitState(TRUE)

\* Either outcome of docker.from_env() at import.
InitSandbox == \E dc \in BOOLEAN : InitState(dc)

\* One chat session: runs of the graph, one after the other.
Next ==
    \/ \E m \in UserTexts : ChatPost(m)
    \/ Planner
    \/ \E r \in ToolTurns : Executor(r)
    \/ \E t \in FinalTexts : Executor(AIMessage(t, NoCalls))
    \/ ExecutorFault
    \/ ToolCallStep
    \/ ToolsReturn
    \/ Verifier
    \/ ChatFinish
    \/ ChatExcept

Spec == Init /\ [][Next]_vars

\* The sandbox manager under project switches and run_shell calls in flight.
NextSandbox ==
    \/ \E p \in ProjectPaths : SetActiveProjectBegin(p)
    \/ SetActiveProjectRemove
    \/ \E a \in ShellArgs : RunShellAcquire(a)
    \/ RunShellExec
    \/ ContainerExits

SpecSandbox == InitSandbox /\ [][NextSandbox]_vars

\* The editor's run and stop buttons, pressed while programs run and end.
InitRunner == InitWith(TRUE, FsRunner)

NextRunner ==
    \/ \E f \in RunTargets : RunCode(f)
    \/ RunCodeReturn
    \/ \E i \in DOMAIN threads : RunnerLaunch(i)
    \/ \E i \in DOMAIN threads : RunnerEnterCommunicate(i)
    \/ \E i \in DOMAIN threads : RunnerCommunicateReturns(i)
    \/ \E i \in DOMAIN threads : RunnerAppendOutput(i)
    \/ \E i \in DOMAIN threads : RunnerReport(i)
    \/ \E i \in DOMAIN threads : RunnerClear(i)
    \/ \E i \in DOMAIN threads : RunnerExcept(i)
    \/ \E p \in DOMAIN procs, c \in ExitCodes : ProcExits(p, c)
    \/ StopCheck
    \/ StopTerminate
    \/ StopClear
    \/ StopNotice

SpecRunner == InitRunner /\ [][NextRunner]_vars

\* Projects opened and created while run_shell calls use the sandbox.
InitProject == InitWith(TRUE, FsProject)

NextProject ==
    \/ \E p \in OpenPaths : OpenProject(p)
    \/ \E pp \in CreatePaths, n \in CreateNames : CreateProject(pp, n)
    \/ SetActiveProjectRemove
    \/ \E a \in ShellArgs : RunShellAcquire(a)
    \/ RunShellExec
    \/ ContainerExits

SpecProject == InitProject /\ [][NextProject]_vars

(***************************************************************************)
(* Properties                                                              *)
(***************************************************************************)
LastMessage == messages[Len(messages)]
LastEntry == chat_history[Len(chat_history)]
\* The AgentTurn whose tool calls tool_node is dispatching.
Calls == LastMessage.tool_calls
\* ACT appended an AgentTurn without tool calls in this step.
ActAppendsPlainTurn ==
    /\ pc = "executor"
    /\ Len(messages') = Len(messages) + 1
    /\ messages'[Len(messages')].tool_calls = NoCalls

\* C1 as stated: when the AgentTurn appended by ACT carries no tool call, the run
\* goes to TERMINAL in that cycle (no DISPATCH or VERIFY follows) and the turn's
\* text is appended to the chat history as the Agent entry, whatever the text.
C1_AsClaimed ==
    /\ [][ActAppendsPlainTurn => pc' = "end"]_vars
    /\ [][pc = "end" =>
            /\ pc' = "idle"
            /\ chat_history' =
                 Append(chat_history, HistoryEntry("Agent", LastMessage.content))]_vars

\* C1, amended: when the AgentTurn appended by ACT carries no tool call, the run
\* goes to TERMINAL in that cycle; the last message of a run at TERMINAL is that
\* turn, and when the run ends its text is appended as the Agent entry if it is
\* not empty, while an empty text appends nothing.
C1_TerminalSameCycle ==
    /\ [][ActAppendsPlainTurn => pc' = "end"]_vars
    /\ [][pc = "end" =>
            /\ LastMessage.type = "ai" /\ LastMessage.tool_calls = NoCalls
            /\ pc' = "idle"
            /\ chat_history' =
                 IF LastMessage.content # NoText
                 THEN Append(chat_history, HistoryEntry("Agent", LastMessage.content))
                 ELSE chat_history]_vars

\* A run that ended on a tool-call-free AgentTurn after a DISPATCH/VERIFY cycle,
\* its text in the chat history as the Agent entry.
C1_Witness ==
    /\ pc = "idle"
    /\ Len(messages) > 1
    /\ LastMessage.type = "ai" /\ LastMessage.tool_calls = NoCalls
    /\ messages[Len(messages) - 1].type = "tool"
    /\ LastEntry = HistoryEntry("Agent", LastMessage.content)

RECURSIVE RunLogs(_)
\* The invocation log lines of the AgentTurns of a message list, in order.
RunLogs(msgs) ==
    IF msgs = <<>> THEN <<>>
    ELSE (IF Head(msgs).type = "ai" THEN InvocationLog(Head(msgs).tool_calls) ELSE <<>>)
            \o RunLogs(Tail(msgs))

ModelFaultEntry == HistoryEntry("System", <<"Error", ": ">> \o ModelFault)
\* The chat history entries the run in progress (or just ended) added.
RunEntries == SubSeq(chat_history, Len(history_objs) + 1, Len(chat_history))

\* C10: when the model call faults, the run stops there and chat_post catches it:
\* the history as it was at the start of the run (the User entry last) and the
\* lines logged before the fault stay, no Agent entry is added, and once the
\* handler is done exactly one System entry carrying the error has been appended,
\* as the last entry.
C10_ModelFaultSurfaced ==
    exc = ModelFault =>
        /\ pc \in {"raised", "idle"}
        /\ Len(history_objs) >= 1
        /\ Len(chat_history) >= Len(history_objs)
        /\ [i \in DOMAIN history_objs |-> ToMessage(chat_history[i])] = history_objs
        /\ chat_history[Len(history_objs)].role = "User"
        /\ \A i \in DOMAIN RunEntries : RunEntries[i].role # "Agent"
        /\ RunEntries =
             RunLogs(SubSeq(messages, Len(history_objs) + 1, Len(messages)))
                \o (IF pc = "idle" THEN <<ModelFaultEntry>> ELSE <<>>)
        /\ Cardinality({i \in DOMAIN RunEntries : RunEntries[i] = ModelFaultEntry})
             = (IF pc = "idle" THEN 1 ELSE 0)

\* A model fault in the second cycle of a run, caught: the tool call logged in
\* the first cycle is still in the history, before the error entry.
C10_Witness ==
    /\ pc = "idle"
    /\ exc = ModelFault
    /\ Len(RunEntries) >= 2
    /\ LastEntry = ModelFaultEntry

\* tool_node left its loop in this step, by returning or by an exception.
DispatchEnds == pc = "tools" /\ pc' # "tools"
FailureSignature(text) == Contains(text, "Error") \/ Contains(text, "Exception")
UnknownName(tc) == tc.name \notin ToolNames

\* C2 as stated: for every AgentTurn with N >= 1 tool calls, DISPATCH ends with
\* exactly N tool result turns appended, in call order, the i-th carrying the id
\* of the i-th call, and the run moves on to VERIFY.
C2_AsClaimed ==
    [][DispatchEnds =>
        /\ pc' = "verifier"
        /\ Len(messages') = Len(messages) + Len(Calls)
        /\ \A i \in DOMAIN Calls :
              /\ messages'[Len(messages) + i].type = "tool"
              /\ messages'[Len(messages) + i].tool_call_id = Calls[i].id]_vars

\* C3 as stated: once set_active_project has returned, the named instance that
\* existed when it was called, mounted to the previous path, no longer exists,
\* so no later get_sandbox can return it, whatever the removal attempt's outcome.
C3_AsClaimed ==
    (sw_pc = "idle" /\ Exists(sw_old) /\ sw_old.mount # ACTIVE_PROJECT_PATH)
        => container.id # sw_old.id

\* C4 as stated: dispatching a write_file call never propagates a fault: the
\* step yields a result for that call and tool_node goes on (to the next call,
\* then to VERIFY).
C4_AsClaimed ==
    [][(/\ pc = "tools"
        /\ Len(results) < Len(Calls)
        /\ Calls[Len(results) + 1].name = "write_file")
       => /\ pc' = "tools"
          /\ Len(results') = Len(results) + 1
          /\ results'[Len(results')].tool_call_id = Calls[Len(results) + 1].id]_vars

\* C5 as stated: run_shell never raises for a sandbox fault; every failure of the
\* lookup, the start, the creation or the exec comes back as a string.
C5_AsClaimed == ret.kind # "raise"

\* C6 as stated: run_shell runs the command on the host only when there is no
\* container runtime client; when the runtime is reachable and creating the
\* instance fails, nothing runs on the host and the output is an error string.
C6_AsClaimed ==
    /\ ret.where = "host" => ret.acquire = "no_client"
    /\ (ret.kind = "return" /\ ret.acquire = "create_failed") =>
          (~ret.ran /\ FailureSignature(ret.text))

\* C7 as stated: after VERIFY the Error flag is non-empty if and only if an
\* output of the batch just dispatched contains "Error" or "Exception" (so a
\* flag set in one cycle is cleared by the next cycle's VERIFY when that batch's
\* outputs carry no signature).
C7_AsClaimed ==
    (pc = "executor" /\ error # Absent) =>
        ((error # NoText) <=>
            \E i \in DOMAIN results : FailureSignature(results[i].output))

\* C8 as stated: every call of a dispatched AgentTurn that names no registered
\* tool gets a result turn whose output is "Unknown tool" (no raise, no skip),
\* and dispatch leaves the Error flag as it was.
C8_AsClaimed ==
    /\ [][pc = "tools" => error' = error]_vars
    /\ [][(DispatchEnds /\ \E i \in DOMAIN Calls : UnknownName(Calls[i])) =>
            /\ Len(messages') = Len(messages) + Len(Calls)
            /\ \A i \in DOMAIN Calls :
                  UnknownName(Calls[i]) =>
                      messages'[Len(messages) + i]
                          = ToolMessage(Calls[i].id, <<"Unknown tool">>)]_vars

\* C9 as stated: every location a file tool opens, creates or lists is the
\* active project path or lies below it.
C9_AsClaimed == \A loc \in touched : Under(ACTIVE_PROJECT_PATH, loc)

\* tool_node is about to dispatch a call of the tool name.
DispatchingCall(name) ==
    /\ pc = "tools"
    /\ Len(results) < Len(Calls)
    /\ Calls[Len(results) + 1].name = name
NextCall == Calls[Len(results) + 1]
\* The location a file tool resolves the call's path argument to.
Target(tc) == Normalize(JoinPath(ACTIVE_PROJECT_PATH, tc.args.path))
\* The step appended one result, for the call being dispatched, and went on.
StepYields(output) ==
    /\ pc' = "tools"
    /\ results' = Append(results, [tool_call_id |-> NextCall.id, output |-> output])

\* C11: read_file on a path that does not exist under the active project path
\* never raises: the call yields a result whose text contains "does not exist",
\* and it changes neither the filesystem nor the conversation.
C11_MissingFileReported ==
    [][(/\ DispatchingCall("read_file")
        /\ Under(ACTIVE_PROJECT_PATH, Target(NextCall))
        /\ Kind(fs, Target(NextCall)) = "none")
       => /\ \E out \in {ReadFile(fs, ACTIVE_PROJECT_PATH, NextCall.args.path).ret} :
                /\ Contains(out, " does not exist.")
                /\ StepYields(out)
          /\ fs' = fs
          /\ messages' = messages
          /\ chat_history' = chat_history]_vars

\* read_file was dispatched on n/f.txt, which does not exist, and answered.
C11_Witness ==
    /\ pc = "tools"
    /\ Len(results) = 1
    /\ Calls[1].name = "read_file"
    /\ Kind(fs, Target(Calls[1])) = "none"
    /\ Contains(results[1].output, " does not exist.")

\* C12 as stated: for every path p and content X, write_file(p, X) called twice
\* in a row leaves the filesystem as one call leaves it, the file holding
\* exactly X, and both calls return the same acknowledgment string.
C12_AsClaimed ==
    [][DispatchingCall("write_file") =>
        LET p == NextCall.args.path
            X == NextCall.args.content
            once == WriteFile(fs, ACTIVE_PROJECT_PATH, p, X)
            twice == WriteFile(once.fs, ACTIVE_PROJECT_PATH, p, X)
        IN  /\ fs' = once.fs
            /\ ~once.raised /\ StepYields(once.ret)
            /\ ~twice.raised /\ twice.ret = once.ret
            /\ twice.fs = once.fs
            /\ Kind(once.fs, Target(NextCall)) = "file"
            /\ once.fs[Target(NextCall)].content = X]_vars

\* The immediate children of a directory.
Children(fsys, dir) ==
    {loc \in DOMAIN fsys :
        Len(loc) = Len(dir) + 1 /\ Front(loc) = dir /\ Kind(fsys, loc) # "none"}
\* The line list_files is to print for a child: its type and its name.
EntryOf(fsys, loc) ==
    [type |-> IF Kind(fsys, loc) = "dir" THEN "DIR" ELSE "FILE", name |-> loc[Len(loc)]]
\* The lines of a listing: the text is type, ": ", name, newline, type, ...
Lines(out) ==
    [k \in 1..((Len(out) + 1) \div 4) |-> [type |-> out[4 * k - 3], name |-> out[4 * k - 1]]]
\* The output of the result the step appended.
NewOutput == results'[Len(results')].output
\* The names the claim has list_files omit: a leading dot and more than one
\* character, node_modules anywhere in the name, or the name __pycache__.
ClaimOmitted(name) ==
    \/ Hidden(name)
    \/ Contains(NameTokens(name), "node_modules")
    \/ name = "__pycache__"

\* C13 as stated: list_files omits exactly the entries whose name starts with a
\* dot and is longer than one character, contains node_modules, or equals
\* __pycache__; every other immediate child of the directory appears exactly
\* once, with the prefix DIR or FILE of its type.
C13_AsClaimed ==
    [][(DispatchingCall("list_files") /\ Kind(fs, Target(NextCall)) = "dir") =>
        /\ Len(results') = Len(results) + 1
        /\ \A loc \in Children(fs, Target(NextCall)) :
              Cardinality({i \in DOMAIN Lines(NewOutput) :
                              Lines(NewOutput)[i] = EntryOf(fs, loc)})
                = (IF ClaimOmitted(loc[Len(loc)]) THEN 0 ELSE 1)
        /\ \A i \in DOMAIN Lines(NewOutput) :
              \E loc \in Children(fs, Target(NextCall)) :
                  Lines(NewOutput)[i] = EntryOf(fs, loc)]_vars

\* tool_node is about to dispatch list_files on an existing directory.
ListingDirectory == DispatchingCall("list_files") /\ Kind(fs, Target(NextCall)) = "dir"

\* C14 as stated: the lines of a listing are in ascending order of the entry
\* names, whatever the types: a smaller name comes before a larger one.
C14_AsClaimed ==
    [][ListingDirectory =>
        /\ Len(results') = Len(results) + 1
        /\ \A i, j \in DOMAIN Lines(NewOutput) :
              i < j => NameRank(Lines(NewOutput)[i].name)
                         < NameRank(Lines(NewOutput)[j].name)]_vars

\* C14, amended: the lines of a listing are in ascending order as strings
\* "TYPE: name": every DIR line comes before every FILE line, and the lines of
\* one type are in ascending order of the entry names.
C14_SortedByLine ==
    [][ListingDirectory =>
        /\ Len(results') = Len(results) + 1
        /\ \A i, j \in DOMAIN Lines(NewOutput) :
              i < j =>
                \/ /\ Lines(NewOutput)[i].type = "DIR"
                   /\ Lines(NewOutput)[j].type = "FILE"
                \/ /\ Lines(NewOutput)[i].type = Lines(NewOutput)[j].type
                   /\ NameRank(Lines(NewOutput)[i].name)
                         < NameRank(Lines(NewOutput)[j].name)]_vars

\* A listing in which a directory precedes a file of a smaller name.
C14_Witness ==
    /\ pc = "tools"
    /\ Len(results) >= 1
    /\ Calls[1].name = "list_files"
    /\ Len(Lines(results[1].output)) >= 2
    /\ Lines(results[1].output)[1].type = "DIR"
    /\ Lines(results[1].output)[2].type = "FILE"
    /\ NameRank(Lines(results[1].output)[2].name)
          < NameRank(Lines(results[1].output)[1].name)

NewEntries == SubSeq(chat_history', Len(chat_history) + 1, Len(chat_history'))
\* A System entry whose content is a prefix followed by the text.
Carries(entry, text) ==
    /\ entry.role = "System"
    /\ Len(entry.content) > Len(text)
    /\ SubSeq(entry.content, Len(entry.content) - Len(text) + 1, Len(entry.content))
          = text

\* C16 as stated: when tool_node returns its batch, every result whose content
\* contains "Error" or "Exception" gets a prefixed System entry carrying it in
\* the chat history (from where the next chat request sends it to the model).
C16_AsClaimed ==
    [][(pc = "tools" /\ pc' = "verifier") =>
        \A i \in DOMAIN results :
            FailureSignature(results[i].output) =>
                \E k \in DOMAIN NewEntries : Carries(NewEntries[k], results[i].output)]_vars

\* The position of the nearest AgentTurn before position i of the log, 0 when
\* there is none.
AgentBefore(i) ==
    CHOOSE j \in 0..(i - 1) :
        /\ j = 0 \/ messages[j].type = "ai"
        /\ \A k \in (j + 1)..(i - 1) : messages[k].type # "ai"

\* C17: in every state, every tool result turn of the log answers a call of the
\* nearest AgentTurn before it: only result turns lie between the two, and the
\* n-th result after the AgentTurn carries the id of its n-th call; so the
\* results of one cycle never mix with the calls or results of another.
C17_ResultsFollowTheirCalls ==
    \A i \in DOMAIN messages :
        messages[i].type = "tool" =>
            LET j == AgentBefore(i) IN
            /\ j > 0
            /\ \A k \in (j + 1)..(i - 1) : messages[k].type = "tool"
            /\ i - j <= Len(messages[j].tool_calls)
            /\ messages[i].tool_call_id = messages[j].tool_calls[i - j].id

\* Two cycles in one log: results, then the next AgentTurn, then its results,
\* one batch holding two results with different ids.
C17_Witness ==
    /\ \E i, j, k \in DOMAIN messages :
          /\ i < j /\ j < k
          /\ messages[i].type = "tool"
          /\ messages[j].type = "ai"
          /\ messages[k].type = "tool"
    /\ \E i \in DOMAIN messages :
          /\ i > 1
          /\ messages[i].type = "tool" /\ messages[i - 1].type = "tool"
          /\ messages[i].tool_call_id # messages[i - 1].tool_call_id

IsPrefix(a, b) == Len(a) <= Len(b) /\ SubSeq(b, 1, Len(a)) = a

\* C18: within a run the log only grows at its end.  PLAN and VERIFY leave it
\* as it is; ACT appends exactly one AgentTurn (nothing when the model call
\* faults); DISPATCH touches it once, when tool_node returns, and then appends
\* exactly the result turns of its batch, one per call (nothing when a tool
\* raises); no step changes or removes a turn already in the log.
C18_AppendOnly ==
    [][pc # "idle" =>
        /\ IsPrefix(messages, messages')
        /\ pc \in {"planner", "verifier", "end", "raised"} => messages' = messages
        /\ pc = "executor" =>
              \/ pc' = "raised" /\ messages' = messages
              \/ /\ pc' \in {"tools", "end"}
                 /\ Len(messages') = Len(messages) + 1
                 /\ messages'[Len(messages')].type = "ai"
        /\ pc = "tools" =>
              \/ pc' \in {"tools", "raised"} /\ messages' = messages
              \/ /\ pc' = "verifier"
                 /\ Len(results) = Len(Calls)
                 /\ messages' = messages \o ToolMessages(results)]_vars

\* A run past its first VERIFY: the log is the conversation the run started
\* with, then the AgentTurn, then its result turns.
C18_Witness ==
    /\ pc = "executor"
    /\ error # Absent
    /\ Len(messages) > Len(history_objs) + 1
    /\ SubSeq(messages, 1, Len(history_objs)) = history_objs
    /\ messages[Len(history_objs) + 1].type = "ai"
    /\ messages[Len(messages)].type = "tool"

\* C19: VERIFY always hands over to ACT, whatever it makes of the Error flag,
\* and changes nothing but the flag; PLAN always hands over to ACT and a
\* DISPATCH that returns to VERIFY: the one place where the successor depends
\* on the state is after ACT, on the tool calls of the turn just appended.
C19_VerifyThenAct ==
    /\ [][pc = "verifier" =>
            /\ pc' = "executor"
            /\ error' \in {NoText, ErrorMessage}
            /\ UNCHANGED <<messages, chat_history, final_text, exc>>]_vars
    /\ [][pc = "planner" => pc' = "executor"]_vars
    /\ [][(pc = "tools" /\ pc' \notin {"tools", "raised"}) => pc' = "verifier"]_vars
    /\ [][(pc = "executor" /\ pc' \notin {"executor", "raised"}) =>
            pc' = (IF messages'[Len(messages')].tool_calls # NoCalls
                   THEN "tools" ELSE "end")]_vars

\* A run that went on after VERIFY set the Error flag: the flag is set and the
\* next AgentTurn's tools are being dispatched.
C19_Witness ==
    /\ pc = "tools"
    /\ error = ErrorMessage

\* C20 as stated, for runs in which the model capability itself does not fault:
\* PLAN, DISPATCH and VERIFY always hand over to their successor, so the run
\* ends only from TERMINAL, that is only when the model has emitted an
\* AgentTurn without tool calls.
C20_AsClaimed ==
    /\ [][pc = "planner" => pc' = "executor"]_vars
    /\ [][pc = "tools" => pc' \in {"tools", "verifier"}]_vars
    /\ [][pc = "verifier" => pc' = "executor"]_vars
    /\ [][(pc # "idle" /\ pc' = "idle" /\ exc # ModelFault) =>
            /\ pc = "end"
            /\ LastMessage.type = "ai" /\ LastMessage.tool_calls = NoCalls]_vars

\* C21 as stated: a model call made while the Error flag is set has the flag's
\* content in its input (the system prompt plus the conversation).
C21_AsClaimed ==
    (pc \in {"tools", "end", "raised"} /\ exc \in {NoText, ModelFault}
        /\ error = ErrorMessage /\ llm_input # <<>>)
      => \E i \in DOMAIN llm_input : Contains(llm_input[i].content, ErrorMessage[1])

\* C22: nothing stands between an AgentTurn with tool calls and their
\* execution.  When ACT appends such a turn the run goes to DISPATCH, in the
\* first cycle of a run as in any other and whatever the conversation holds;
\* the step DISPATCH takes with a call still to serve is that call's
\* execution, with its effects on the filesystem and the sandbox.
C22_NoConfirmationGuard ==
    /\ [][(/\ pc = "executor"
            /\ Len(messages') = Len(messages) + 1
            /\ messages'[Len(messages')].tool_calls # NoCalls) => pc' = "tools"]_vars
    /\ [][(pc = "tools" /\ Len(results) < Len(Calls)) =>
            \E o \in Dispatch(NextCall) :
                /\ fs' = o.fs
                /\ container' = o.container
                /\ host_runs' = host_runs \cup o.host
                /\ sandbox_runs' = sandbox_runs \cup o.sandbox
                /\ \/ o.raised /\ pc' = "raised"
                   \/ ~o.raised /\ StepYields(o.ret)]_vars

\* The first cycle of the first run: the conversation is the one user turn
\* asking for a fix, nobody confirmed anything, and write_file has overwritten
\* a.txt.
C22_Witness ==
    /\ pc = "tools"
    /\ messages[1] = HumanMessage(<<"fix the parser">>)
    /\ Len(messages) = 2
    /\ \A i \in DOMAIN chat_history : chat_history[i].role # "Agent"
    /\ Len(results) = 1
    /\ Calls[1].name = "write_file"
    /\ fs[<<"p1", "a.txt">>] = Entry("file", <<"X">>)

\* C23: at most one sandbox instance exists at any time, and it is the one the
\* fixed name resolves to.  get_sandbox creates an instance only when none
\* exists; when one exists and get_sandbox returns, it returns that one,
\* running (started if it was not), and creates nothing.
C23_AtMostOneInstance ==
    /\ [](/\ Cardinality(instances) <= 1
          /\ instances = (IF Exists(container) THEN {container.id} ELSE {}))
    /\ [][nextId' # nextId => (~Exists(container) /\ instances = {})]_vars
    /\ [][(rs_pc = "idle" /\ rs_pc' = "acquired" /\ Exists(container)) =>
            /\ rs_handle' = container'
            /\ container' = [container EXCEPT !.status = "running"]
            /\ instances' = instances
            /\ nextId' = nextId]_vars

\* After a project switch, run_shell found the one instance stopped and
\* started it: the call holds it and no second instance was created.
C23_Witness ==
    /\ rs_pc = "acquired"
    /\ ret.acquire = "started"
    /\ nSwitch >= 1
    /\ rs_handle = container
    /\ instances = {container.id}
    /\ nextId = container.id + 1

\* The run_shell call in flight holds an instance that no longer exists.
HandleGone == rs_pc = "acquired" /\ Exists(rs_handle) /\ rs_handle.id # container.id
\* The run_shell call in flight holds an instance mounted to another path than
\* the active one.
HandleStale ==
    rs_pc = "acquired" /\ Exists(rs_handle) /\ rs_handle.mount # ACTIVE_PROJECT_PATH

\* C24: set_active_project and a run_shell call in flight are not safe
\* together.  A call holding an instance that the switch has removed gets
\* there only by such an overlap, and its exec fails on the missing instance;
\* a call holding an instance mounted to another path than the active one
\* gets there by such an overlap (or, overlap apart, through the instance a
\* failed removal left behind), and its exec runs the command in that stale
\* mount.
C24_UnsafeWhenInterleaved ==
    /\ [](HandleGone => rs_overlap)
    /\ [](HandleStale => (rs_overlap \/ (sw_pc = "idle" /\ sw_old.id = rs_handle.id)))
    /\ [][(HandleGone /\ rs_pc' = "idle") =>
            /\ ~ret'.ran /\ FailureSignature(ret'.text)
            /\ sandbox_runs' = sandbox_runs /\ host_runs' = host_runs]_vars
    /\ [][(HandleStale /\ ~HandleGone /\ rs_pc' = "idle" /\ ret'.ran) =>
            /\ ret'.where = "sandbox"
            /\ ret'.mount = rs_handle.mount
            /\ <<rs_args.command, rs_handle.mount>> \in sandbox_runs']_vars

\* A project switch overlapped a run_shell call: the command ran in the
\* sandbox mounted to the first project while the second was the active one,
\* and the switch then removed that instance.
C24_Witness ==
    /\ rs_pc = "idle" /\ sw_pc = "idle"
    /\ rs_overlap
    /\ ret.where = "sandbox" /\ ret.ran
    /\ ret.mount = P1
    /\ ACTIVE_PROJECT_PATH = P2
    /\ ~Exists(container)

\* The process of the most recent /editor/run launch is still running.
LatestRunning == procs # <<>> /\ procs[Len(procs)].status = "running"

\* C25 as stated: while the process of the most recent /editor/run launch is
\* running the handle names it, whatever other launches and completions
\* interleave, and an /editor/stop request arriving then goes on to terminate
\* that process.
C25_AsClaimed ==
    /\ [](LatestRunning => running_process = Len(procs))
    /\ [][(LatestRunning /\ nStop' # nStop) =>
            (stop_pc' = "terminate" /\ running_process = Len(procs))]_vars

\* The terminal shows an "Error execution" line.
ErrorExecutionShown ==
    \E k \in DOMAIN terminal_history : terminal_history[k][1] = "Error execution: "

\* C26 as stated: whatever the interleaving of /editor/stop with a run_proc
\* thread, the thread never reads a field of a handle that is None, and the
\* terminal never shows an "Error execution" line.
C26_AsClaimed ==
    /\ [](\A i \in DOMAIN threads :
            threads[i].e \notin {NoneHasNo("communicate"), NoneHasNo("returncode")})
    /\ [](~ErrorExecutionShown)

\* The step is a /project request for a path that is not a directory.
OpensNoDirectory ==
    /\ project_req'.n # project_req.n
    /\ project_req'.op = "open"
    /\ Kind(fs, project_req'.path) # "dir"

\* C27: PROJECT_ROOT of main and ACTIVE_PROJECT_PATH of the agent are equal in
\* every state; a /project request changes both or neither, and /project/open
\* with a path that is not a directory changes neither and leaves the sandbox
\* as it was.
C27_RootsAgree ==
    /\ [](PROJECT_ROOT = ACTIVE_PROJECT_PATH)
    /\ [][(project_req'.n # project_req.n) =>
            ((PROJECT_ROOT' # PROJECT_ROOT \/ ACTIVE_PROJECT_PATH' # ACTIVE_PROJECT_PATH)
                => (PROJECT_ROOT' = project_req'.path
                    /\ ACTIVE_PROJECT_PATH' = project_req'.path))]_vars
    /\ [][OpensNoDirectory =>
            /\ UNCHANGED <<PROJECT_ROOT, ACTIVE_PROJECT_PATH>>
            /\ UNCHANGED <<container, instances, sw_pc, nSwitch>>]_vars

\* With a sandbox running for the second project, the last request was
\* /project/open for a path that is not a directory.
C27_Witness ==
    /\ project_req.op = "open"
    /\ Kind(fs, project_req.path) # "dir"
    /\ PROJECT_ROOT = P2
    /\ Exists(container) /\ container.mount = P2
    /\ sw_pc = "idle" /\ rs_pc = "idle"

====
